---- MODULE Spec2Model ----
(***************************************************************************)
(* Model of backend/server.py: the tool functions (write_json, read_json,  *)
(* generate_sample_user, save_users), the tool registry and the            *)
(* tool-calling loop run_chat.                                             *)
(*                                                                         *)
(* Python strings are TLA+ strings; the other Python values are tagged     *)
(* records (PyStr, PyInt, PyList, PyDict), so that a conversion (str(),    *)
(* json.dumps, an f-string) is computed character by character.            *)
(***************************************************************************)
EXTENDS Integers, Sequences, FiniteSets, TLC

VARIABLES
    fs,         \* the file system: what each path holds
    call,       \* the tool invocation made last, or NoCall
    ret,        \* the outcome of that invocation, or NoRet
    req,        \* chat: the request, [message, history], or NoRequest
    pc,         \* run_chat: "idle", "invoke", "tools", "returned" or "raised"
    messages,   \* run_chat: the conversation state
    rounds,     \* run_chat: the loop iterations begun, each one model invocation
    todo,       \* run_chat: the tool calls of this round not yet processed
    reply,      \* run_chat: what it returned or raised, or NoRet
    other       \* the request of the thread that is not running: its id and its
                \* req, pc, messages, rounds, todo and reply; or NoOther

vars == <<fs, call, ret, req, pc, messages, rounds, todo, reply, other>>

\* the variables of run_chat
chat_vars == <<req, pc, messages, rounds, todo, reply>>

(***************************************************************************)
(* Strings                                                                 *)
(***************************************************************************)
CharAt(s, i) == SubSeq(s, i, i)

Chars(s) == {CharAt(s, i) : i \in 1..Len(s)}

\* t occurs in s as a substring
Contains(s, t) ==
    \E i \in 1..(Len(s) + 1) : i + Len(t) - 1 <= Len(s) /\ SubSeq(s, i, i + Len(t) - 1) = t

UpperAlpha == "ABCDEFGHIJKLMNOPQRSTUVWXYZ"

LowerAlpha == "abcdefghijklmnopqrstuvwxyz"

Digits == "0123456789"

\* str.strip() without arguments removes these
Whitespace == {" ", "\t", "\n", "\r", "\f"}

\* the lower-case letter of each upper-case letter
LowerOf ==
    [c \in Chars(UpperAlpha) |->
        CharAt(LowerAlpha, CHOOSE i \in 1..Len(UpperAlpha) : CharAt(UpperAlpha, i) = c)]

LowerChar(c) == IF c \in DOMAIN LowerOf THEN LowerOf[c] ELSE c

RECURSIVE StrLower(_)
StrLower(s) ==
    IF s = "" THEN "" ELSE LowerChar(CharAt(s, 1)) \o StrLower(SubSeq(s, 2, Len(s)))

RECURSIVE LStrip(_, _)
LStrip(s, cs) ==
    IF s # "" /\ CharAt(s, 1) \in cs THEN LStrip(SubSeq(s, 2, Len(s)), cs) ELSE s

RECURSIVE RStrip(_, _)
RStrip(s, cs) ==
    IF s # "" /\ CharAt(s, Len(s)) \in cs THEN RStrip(SubSeq(s, 1, Len(s) - 1), cs) ELSE s

\* str.strip(chars): both ends
StrStrip(s, cs) == RStrip(LStrip(s, cs), cs)

\* the characters _slug_re does NOT match: [a-z0-9]
SlugKeep == Chars(LowerAlpha \o Digits)

\* _slug_re.sub(".", s): every maximal run of characters outside [a-z0-9]
\* becomes one "."; inRun tells that the previous character was in a run.
RECURSIVE SlugSubFrom(_, _)
SlugSubFrom(s, inRun) ==
    IF s = "" THEN ""
    ELSE LET c == CharAt(s, 1)
             rest == SubSeq(s, 2, Len(s))
         IN  IF c \in SlugKeep THEN c \o SlugSubFrom(rest, FALSE)
             ELSE IF inRun THEN SlugSubFrom(rest, TRUE)
             ELSE "." \o SlugSubFrom(rest, TRUE)

slug_re_sub(s) == SlugSubFrom(s, FALSE)

\* a _slugify that leaves the "." at the ends
_slugify_NoTrim(s0) ==
    LET s1 == StrLower(StrStrip(s0, Whitespace))
        s2 == slug_re_sub(s1)
    IN  IF s2 = "" THEN "user" ELSE s2

_slugify(s0) ==
    LET s1 == StrLower(StrStrip(s0, Whitespace))
        s2 == StrStrip(slug_re_sub(s1), {"."})
    IN  IF s2 = "" THEN "user" ELSE s2

(***************************************************************************)
(* Python values                                                           *)
(***************************************************************************)
PyStr(s) == [t |-> "str", s |-> s]

PyInt(n) == [t |-> "int", n |-> n]

PyList(xs) == [t |-> "list", xs |-> xs]

PyBool(b) == [t |-> "bool", b |-> b]

PyNone == [t |-> "None"]

\* a dict is the sequence of its <<key, value>> pairs in insertion order,
\* keys and values being Python values
PyDict(kvs) == [t |-> "dict", kvs |-> kvs]

\* one pair with a str key
KV(key, v) == <<PyStr(key), v>>

\* key in d, for a str key
DictHas(d, key) == \E i \in 1..Len(d.kvs) : d.kvs[i][1] = PyStr(key)

\* d[key], for a str key
DictGet(d, key) == d.kvs[CHOOSE i \in 1..Len(d.kvs) : d.kvs[i][1] = PyStr(key)][2]

(***************************************************************************)
(* str() and repr() of Python values                                       *)
(***************************************************************************)
RECURSIVE Join(_, _)
\* sep.join(parts)
Join(parts, sep) ==
    IF parts = <<>> THEN ""
    ELSE IF Len(parts) = 1 THEN parts[1]
    ELSE parts[1] \o sep \o Join(Tail(parts), sep)

\* one character of a str inside repr(), q being the quote repr() uses
ReprChar(c, q) ==
    CASE c = "\\" -> "\\\\"
      [] c = "\n" -> "\\n"
      [] c = "\t" -> "\\t"
      [] c = "\r" -> "\\r"
      [] c = q    -> "\\" \o q
      [] OTHER    -> c

RECURSIVE ReprChars(_, _)
ReprChars(s, q) ==
    IF s = "" THEN "" ELSE ReprChar(CharAt(s, 1), q) \o ReprChars(SubSeq(s, 2, Len(s)), q)

\* repr() of a str: single quotes, unless the str holds ' and no "
StrRepr(s) ==
    LET q == IF "'" \in Chars(s) /\ "\"" \notin Chars(s) THEN "\"" ELSE "'"
    IN  q \o ReprChars(s, q) \o q

RECURSIVE PyRepr(_)
\* repr(v)
PyRepr(v) ==
    CASE v.t = "str"  -> StrRepr(v.s)
      [] v.t = "int"  -> ToString(v.n)
      [] v.t = "bool" -> IF v.b THEN "True" ELSE "False"
      [] v.t = "None" -> "None"
      [] v.t = "list" ->
            "[" \o Join([i \in 1..Len(v.xs) |-> PyRepr(v.xs[i])], ", ") \o "]"
      [] v.t = "dict" ->
            "{" \o Join([i \in 1..Len(v.kvs) |->
                            PyRepr(v.kvs[i][1]) \o ": " \o PyRepr(v.kvs[i][2])], ", ") \o "}"

\* str(v): a str is itself, any other value its repr
PyStrOf(v) == IF v.t = "str" THEN v.s ELSE PyRepr(v)

(***************************************************************************)
(* json.dumps                                                              *)
(***************************************************************************)
\* json.dumps(..., indent=None)
NoIndent == -1

JsonEscapeChar(c) ==
    CASE c = "\"" -> "\\\""
      [] c = "\\" -> "\\\\"
      [] c = "\n" -> "\\n"
      [] c = "\t" -> "\\t"
      [] c = "\r" -> "\\r"
      [] c = "\f" -> "\\f"
      [] OTHER    -> c

RECURSIVE JsonEscape(_)
JsonEscape(s) ==
    IF s = "" THEN "" ELSE JsonEscapeChar(CharAt(s, 1)) \o JsonEscape(SubSeq(s, 2, Len(s)))

JsonQuote(s) == "\"" \o JsonEscape(s) \o "\""

\* a dict key as JSON: str keys as they are, the other scalar keys coerced
JsonKey(k) ==
    CASE k.t = "str"  -> JsonQuote(k.s)
      [] k.t = "int"  -> JsonQuote(ToString(k.n))
      [] k.t = "bool" -> IF k.b THEN JsonQuote("true") ELSE JsonQuote("false")
      [] k.t = "None" -> JsonQuote("null")

RECURSIVE Spaces(_)
Spaces(n) == IF n <= 0 THEN "" ELSE " " \o Spaces(n - 1)

\* the line break and indentation before an item at nesting depth level
JsonNewline(indent, level) == "\n" \o Spaces(indent * level)

\* the items of a container, between its brackets
JsonBody(parts, indent, level) ==
    IF indent = NoIndent THEN Join(parts, ", ")
    ELSE JsonNewline(indent, level + 1)
         \o Join(parts, "," \o JsonNewline(indent, level + 1))
         \o JsonNewline(indent, level)

RECURSIVE JsonDumpsAt(_, _, _)
JsonDumpsAt(v, indent, level) ==
    CASE v.t = "str"  -> JsonQuote(v.s)
      [] v.t = "int"  -> ToString(v.n)
      [] v.t = "bool" -> IF v.b THEN "true" ELSE "false"
      [] v.t = "None" -> "null"
      [] v.t = "list" ->
            IF v.xs = <<>> THEN "[]"
            ELSE "[" \o JsonBody([i \in 1..Len(v.xs) |->
                                     JsonDumpsAt(v.xs[i], indent, level + 1)],
                                 indent, level) \o "]"
      [] v.t = "dict" ->
            IF v.kvs = <<>> THEN "{}"
            ELSE "{" \o JsonBody([i \in 1..Len(v.kvs) |->
                                     JsonKey(v.kvs[i][1]) \o ": "
                                     \o JsonDumpsAt(v.kvs[i][2], indent, level + 1)],
                                 indent, level) \o "}"

\* json.dumps(v, indent=indent, ensure_ascii=False)
JsonDumps(v, indent) == JsonDumpsAt(v, indent, 0)

(***************************************************************************)
(* json.loads: a recursive-descent parser of strings, integers, true,      *)
(* false, null, arrays and objects (no floats, no \u escapes)              *)
(***************************************************************************)
\* the character at i, "" past the end
At(s, i) == IF i \in 1..Len(s) THEN SubSeq(s, i, i) ELSE ""

\* t stands in s at index i
StartsAt(s, i, t) == i + Len(t) - 1 <= Len(s) /\ SubSeq(s, i, i + Len(t) - 1) = t

\* a value parsed, the text going on at index i
Parsed(v, i) == [ok |-> TRUE, v |-> v, i |-> i]

\* JSONDecodeError at index i
ParseError(i) == [ok |-> FALSE, i |-> i]

RECURSIVE SkipWs(_, _)
SkipWs(s, i) == IF At(s, i) \in {" ", "\t", "\n", "\r"} THEN SkipWs(s, i + 1) ELSE i

\* the character an escape \e stands for, "" when there is none
JsonUnescape(e) ==
    CASE e = "\"" -> "\""
      [] e = "\\" -> "\\"
      [] e = "/"  -> "/"
      [] e = "n"  -> "\n"
      [] e = "t"  -> "\t"
      [] e = "r"  -> "\r"
      [] e = "f"  -> "\f"
      [] OTHER    -> ""

RECURSIVE ScanString(_, _, _)
\* the rest of a string literal whose opening quote is before i
ScanString(s, i, acc) ==
    LET c == At(s, i)
    IN  IF c = "" THEN ParseError(i)
        ELSE IF c = "\"" THEN Parsed(PyStr(acc), i + 1)
        ELSE IF c = "\\"
        THEN IF JsonUnescape(At(s, i + 1)) = "" THEN ParseError(i)
             ELSE ScanString(s, i + 2, acc \o JsonUnescape(At(s, i + 1)))
        ELSE IF c \in {"\n", "\t", "\r", "\f"} THEN ParseError(i)
        ELSE ScanString(s, i + 1, acc \o c)

DigitChars == Chars(Digits)

\* the value of each digit
DigitOf == [c \in DigitChars |-> CHOOSE d \in 0..9 : CharAt(Digits, d + 1) = c]

DigitValue(c) == DigitOf[c]

RECURSIVE ScanDigits(_, _, _)
ScanDigits(s, i, acc) ==
    IF At(s, i) \in DigitChars
    THEN ScanDigits(s, i + 1, 10 * acc + DigitValue(At(s, i)))
    ELSE [n |-> acc, i |-> i]

\* an integer literal at i: -?(0|[1-9][0-9]*)
ScanNumber(s, i) ==
    LET neg == At(s, i) = "-"
        j == IF neg THEN i + 1 ELSE i
        d == IF At(s, j) = "0" THEN [n |-> 0, i |-> j + 1] ELSE ScanDigits(s, j, 0)
    IN  IF At(s, j) \notin DigitChars \/ At(s, d.i) \in {".", "e", "E"}
        THEN ParseError(j)
        ELSE Parsed(PyInt(IF neg THEN 0 - d.n ELSE d.n), d.i)

\* a decoder that puts each new key in front of the keys read so far
DictSet_Front(kvs, key, v) == << <<key, v>> >> \o kvs

\* d[key] = v on the pairs of a dict: a key already there keeps its place
DictSet(kvs, key, v) ==
    IF \E i \in 1..Len(kvs) : kvs[i][1] = key
    THEN [i \in 1..Len(kvs) |-> IF kvs[i][1] = key THEN <<key, v>> ELSE kvs[i]]
    ELSE Append(kvs, <<key, v>>)

RECURSIVE ParseValue(_, _)
RECURSIVE ParseArrayItems(_, _, _)
RECURSIVE ArrayAfterItem(_, _, _)
RECURSIVE ArrayAfterWs(_, _, _)
RECURSIVE ParseObjectItems(_, _, _)
RECURSIVE ObjectAfterKey(_, _, _)
RECURSIVE ObjectAfterColon(_, _, _, _)
RECURSIVE ObjectAfterValue(_, _, _, _)
RECURSIVE ObjectAfterWs(_, _, _)

\* the value that starts at i
ParseValue(s, i) ==
    LET c == At(s, i)
    IN  IF c = "\"" THEN ScanString(s, i + 1, "")
        ELSE IF c = "{"
        THEN IF At(s, SkipWs(s, i + 1)) = "}"
             THEN Parsed(PyDict(<<>>), SkipWs(s, i + 1) + 1)
             ELSE ParseObjectItems(s, SkipWs(s, i + 1), <<>>)
        ELSE IF c = "["
        THEN IF At(s, SkipWs(s, i + 1)) = "]"
             THEN Parsed(PyList(<<>>), SkipWs(s, i + 1) + 1)
             ELSE ParseArrayItems(s, SkipWs(s, i + 1), <<>>)
        ELSE IF StartsAt(s, i, "true") THEN Parsed(PyBool(TRUE), i + 4)
        ELSE IF StartsAt(s, i, "false") THEN Parsed(PyBool(FALSE), i + 5)
        ELSE IF StartsAt(s, i, "null") THEN Parsed(PyNone, i + 4)
        ELSE IF c = "-" \/ c \in DigitChars THEN ScanNumber(s, i)
        ELSE ParseError(i)

\* the items of an array from the item at i on, acc holding the items before
ParseArrayItems(s, i, acc) == ArrayAfterItem(s, acc, ParseValue(s, i))

\* ... once the item is parsed, with the outcome r
ArrayAfterItem(s, acc, r) ==
    IF ~r.ok THEN r ELSE ArrayAfterWs(s, Append(acc, r.v), SkipWs(s, r.i))

\* ... at the "," or "]" expected at j
ArrayAfterWs(s, acc, j) ==
    IF At(s, j) = "," THEN ParseArrayItems(s, SkipWs(s, j + 1), acc)
    ELSE IF At(s, j) = "]" THEN Parsed(PyList(acc), j + 1)
    ELSE ParseError(j)

\* the pairs of an object from the key at i on, acc holding the pairs before
ParseObjectItems(s, i, acc) ==
    IF At(s, i) # "\"" THEN ParseError(i)
    ELSE ObjectAfterKey(s, acc, ScanString(s, i + 1, ""))

\* ... once the key is parsed, with the outcome k
ObjectAfterKey(s, acc, k) ==
    IF ~k.ok THEN k ELSE ObjectAfterColon(s, acc, k.v, SkipWs(s, k.i))

\* ... at the ":" expected at j
ObjectAfterColon(s, acc, key, j) ==
    IF At(s, j) # ":" THEN ParseError(j)
    ELSE ObjectAfterValue(s, acc, key, ParseValue(s, SkipWs(s, j + 1)))

\* ... once the value is parsed, with the outcome r
ObjectAfterValue(s, acc, key, r) ==
    IF ~r.ok THEN r ELSE ObjectAfterWs(s, DictSet(acc, key, r.v), SkipWs(s, r.i))

\* ... at the "," or "}" expected at j
ObjectAfterWs(s, acc, j) ==
    IF At(s, j) = "," THEN ParseObjectItems(s, SkipWs(s, j + 1), acc)
    ELSE IF At(s, j) = "}" THEN Parsed(PyDict(acc), j + 1)
    ELSE ParseError(j)

\* the end of the document: only whitespace may follow the value parsed
LoadsEnd(s, r) ==
    IF ~r.ok THEN r
    ELSE IF SkipWs(s, r.i) <= Len(s) THEN ParseError(SkipWs(s, r.i))
    ELSE r

\* json.loads(s): the value, or the place of the JSONDecodeError
JsonLoads(s) == LoadsEnd(s, ParseValue(s, SkipWs(s, 1)))

(***************************************************************************)
(* Randomness and the clock                                                *)
(***************************************************************************)
\* a randint whose upper end is exclusive of nothing: one too wide
RandInt_TooWide(a, b, raw) == a + (raw % (b - a + 2))

\* random.randint(a, b) for a <= b: a + randbelow(b - a + 1), where raw is
\* what the generator yields for this call
RandInt(a, b, raw) == a + (raw % (b - a + 1))

\* the largest raw value the generator yields for an age
MaxRaw == 1

\* what the generator yields for one record: for the username suffix, the
\* age and the registration offset.  The suffix and the offset are sampled
\* together, at the low ends and at the high ends of their ranges.
RawDraws ==
    {[suffix |-> e[1], age |-> a, days |-> e[2]] : e \in {<<0, 0>>, <<899, 364>>},
                                                  a \in 0..MaxRaw}

\* _tznow(): the current local time (a day count) with its UTC offset
_tznow == [day |-> 1000, tz |-> "+00:00"]

\* dt - timedelta(days=d)
MinusDays(dt, d) == [dt EXCEPT !.day = dt.day - d]

\* datetime.isoformat() of an aware datetime
IsoFormat(dt) == "D" \o ToString(dt.day) \o "T00:00:00" \o dt.tz

(***************************************************************************)
(* generate_sample_user                                                    *)
(***************************************************************************)
\* the loop body with the cycles of last_names and domains begun one place on
SampleUser_ShiftedCycle(i, first_names, last_names, domains, min_age, max_age, d) ==
    LET first == first_names[i + 1]
        last == last_names[((i + 1) % Len(last_names)) + 1]
        domain == domains[((i + 1) % Len(domains)) + 1]
        first_slug == _slugify(first)
        last_slug == _slugify(last)
        email == first_slug \o "." \o last_slug \o "@"
                 \o StrLower(StrStrip(domain, Whitespace))
    IN  PyDict(<< KV("id", PyInt(i + 1)),
                  KV("firstName", PyStr(first)),
                  KV("lastName", PyStr(last)),
                  KV("email", PyStr(email)),
                  KV("username", PyStr(first_slug \o ToString(RandInt(100, 999, d.suffix)))),
                  KV("age", PyInt(RandInt(min_age, max_age, d.age))),
                  KV("registeredAt", PyStr(IsoFormat(MinusDays(_tznow, RandInt(1, 365, d.days))))) >>)

\* the record built for 0-based index i (loop body, one iteration)
SampleUser(i, first_names, last_names, domains, min_age, max_age, d) ==
    LET first == first_names[i + 1]
        last == last_names[(i % Len(last_names)) + 1]
        domain == domains[(i % Len(domains)) + 1]
        first_slug == _slugify(first)
        last_slug == _slugify(last)
        email == first_slug \o "." \o last_slug \o "@"
                 \o StrLower(StrStrip(domain, Whitespace))
    IN  PyDict(<< KV("id", PyInt(i + 1)),
                  KV("firstName", PyStr(first)),
                  KV("lastName", PyStr(last)),
                  KV("email", PyStr(email)),
                  KV("username", PyStr(first_slug \o ToString(RandInt(100, 999, d.suffix)))),
                  KV("age", PyInt(RandInt(min_age, max_age, d.age))),
                  KV("registeredAt", PyStr(IsoFormat(MinusDays(_tznow, RandInt(1, 365, d.days))))) >>)

\* the error result {"error": reason}
GenError(reason) == PyDict(<< KV("error", PyStr(reason)) >>)

\* the result {"users": users, "count": len(users)}
GenUsers(users) == PyDict(<< KV("users", PyList(users)), KV("count", PyInt(Len(users))) >>)

\* generate_sample_user with the two age checks in the other order
generate_sample_user_NegativeFirst(first_names, last_names, domains, min_age, max_age, rnd) ==
    IF Len(first_names) = 0 THEN GenError("first_names list cannot be empty")
    ELSE IF Len(last_names) = 0 THEN GenError("last_names list cannot be empty")
    ELSE IF Len(domains) = 0 THEN GenError("domains list cannot be empty")
    ELSE IF min_age < 0 \/ max_age < 0 THEN GenError("ages must be non-negative")
    ELSE IF min_age > max_age
    THEN GenError("min_age (" \o ToString(min_age)
                  \o ") cannot be greater than max_age (" \o ToString(max_age) \o ")")
    ELSE GenUsers([j \in 1..Len(first_names) |->
                      SampleUser(j - 1, first_names, last_names, domains,
                                 min_age, max_age, rnd[j])])

\* generate_sample_user(first_names, last_names, domains, min_age, max_age);
\* rnd[i] holds what the random generator yields for the i-th record.
generate_sample_user(first_names, last_names, domains, min_age, max_age, rnd) ==
    IF Len(first_names) = 0 THEN GenError("first_names list cannot be empty")
    ELSE IF Len(last_names) = 0 THEN GenError("last_names list cannot be empty")
    ELSE IF Len(domains) = 0 THEN GenError("domains list cannot be empty")
    ELSE IF min_age > max_age
    THEN GenError("min_age (" \o ToString(min_age)
                  \o ") cannot be greater than max_age (" \o ToString(max_age) \o ")")
    ELSE IF min_age < 0 \/ max_age < 0 THEN GenError("ages must be non-negative")
    ELSE GenUsers([j \in 1..Len(first_names) |->
                      SampleUser(j - 1, first_names, last_names, domains,
                                 min_age, max_age, rnd[j])])

(***************************************************************************)
(* The file system: pathlib.Path.mkdir, write_text, read_text              *)
(***************************************************************************)
Absent == [kind |-> "absent"]

Directory == [kind |-> "dir"]

RegularFile(text) == [kind |-> "file", text |-> text]

\* the paths the model follows; the working directory "." always exists
Paths == {"a.json", "data", "data/u.json"}

RECURSIVE LastSlash(_, _)
\* the index of the last "/" of p at or before i, 0 when there is none
LastSlash(p, i) == IF i = 0 \/ CharAt(p, i) = "/" THEN i ELSE LastSlash(p, i - 1)

\* Path(p).parent
Parent(p) == IF LastSlash(p, Len(p)) = 0 THEN "." ELSE SubSeq(p, 1, LastSlash(p, Len(p)) - 1)

KindOf(files, p) == IF p = "." THEN "dir" ELSE files[p].kind

\* the outcome of a file operation: the file system after it, and the
\* OSError it raised, "" when it raised none
IoDone(files) == [files |-> files, err |-> ""]

IoError(files, e) == [files |-> files, err |-> e]

RECURSIVE Mkdir(_, _)
\* Path(d).mkdir(parents=True, exist_ok=True)
Mkdir(files, d) ==
    IF KindOf(files, d) = "dir" THEN IoDone(files)
    ELSE IF KindOf(files, d) = "file"
    THEN IoError(files, "[Errno 17] File exists: '" \o d \o "'")
    ELSE LET up == Mkdir(files, Parent(d))
         IN  IF up.err # "" THEN up ELSE IoDone([up.files EXCEPT ![d] = Directory])

\* Path(p).write_text(text)
WriteText(files, p, text) ==
    IF KindOf(files, p) = "dir"
    THEN IoError(files, "[Errno 21] Is a directory: '" \o p \o "'")
    ELSE IF KindOf(files, Parent(p)) = "file"
    THEN IoError(files, "[Errno 20] Not a directory: '" \o p \o "'")
    ELSE IF KindOf(files, Parent(p)) = "absent"
    THEN IoError(files, "[Errno 2] No such file or directory: '" \o p \o "'")
    ELSE IoDone([files EXCEPT ![p] = RegularFile(text)])

\* the exception Path(p).read_text() raises, "" when it returns the text
ReadError(files, p) ==
    IF KindOf(files, p) = "dir" THEN "IsADirectoryError"
    ELSE IF KindOf(files, Parent(p)) = "file" THEN "NotADirectoryError"
    ELSE IF KindOf(files, p) = "absent" THEN "FileNotFoundError"
    ELSE ""

\* str(e) of the OSError read_text raises
ReadErrorText(files, p) ==
    CASE ReadError(files, p) = "IsADirectoryError" -> "[Errno 21] Is a directory: '" \o p \o "'"
      [] ReadError(files, p) = "NotADirectoryError" -> "[Errno 20] Not a directory: '" \o p \o "'"
      [] OTHER -> "[Errno 2] No such file or directory: '" \o p \o "'"

(***************************************************************************)
(* The tools.  A tool function yields the value it returns and the file    *)
(* system it leaves.                                                       *)
(***************************************************************************)
ToolDone(v, files) == [value |-> v, files |-> files]

\* the write after p.parent.mkdir(...) has had the outcome made
WriteAfterMkdir(made, filepath, text) ==
    IF made.err # "" THEN made ELSE WriteText(made.files, filepath, text)

\* p.parent.mkdir(parents=True, exist_ok=True); p.write_text(text)
WriteFile(files, filepath, text) ==
    WriteAfterMkdir(Mkdir(files, Parent(filepath)), filepath, text)

\* what write_json returns once the file operations have had the outcome
\* written
WriteJsonResult(filepath, text, written) ==
    IF written.err # ""
    THEN ToolDone(PyStr("Error writing JSON: " \o written.err), written.files)
    ELSE ToolDone(PyStr("Successfully wrote JSON to '" \o filepath \o "' ("
                        \o ToString(Len(text)) \o " characters)."), written.files)

\* the body of write_json once data is serialised to text
WriteJsonText(files, filepath, text) ==
    WriteJsonResult(filepath, text, WriteFile(files, filepath, text))

\* write_json(filepath, data)
write_json(files, filepath, data) == WriteJsonText(files, filepath, JsonDumps(data, 2))

\* str(e) of the JSONDecodeError raised at index i, kept to the decoder's
\* most common message and the character offset (the line and the column of
\* the full text are left out)
DecodeErrorText(i) == "Expecting value: (char " \o ToString(i - 1) \o ")"

\* a read_json that returns the parsed data itself
ReadJsonResult_Parsed(files, data) ==
    IF ~data.ok
    THEN ToolDone(PyStr("Error: Invalid JSON in file - " \o DecodeErrorText(data.i)), files)
    ELSE ToolDone(data.v, files)

\* what read_json returns once json.load has had the outcome data
ReadJsonResult(files, data) ==
    IF ~data.ok
    THEN ToolDone(PyStr("Error: Invalid JSON in file - " \o DecodeErrorText(data.i)), files)
    ELSE ToolDone(PyStr(JsonDumps(data.v, 2)), files)

\* a read_json whose first handler catches every OSError
read_json_AnyOSError(files, filepath) ==
    IF ReadError(files, filepath) # ""
    THEN ToolDone(PyStr("Error: File '" \o filepath \o "' not found."), files)
    ELSE ReadJsonResult(files, JsonLoads(files[filepath].text))

\* read_json(filepath)
read_json(files, filepath) ==
    IF ReadError(files, filepath) = "FileNotFoundError"
    THEN ToolDone(PyStr("Error: File '" \o filepath \o "' not found."), files)
    ELSE IF ReadError(files, filepath) # ""
    THEN ToolDone(PyStr("Error reading JSON: " \o ReadErrorText(files, filepath)), files)
    ELSE ReadJsonResult(files, JsonLoads(files[filepath].text))

\* a default that stands in for a list left out only, not for an empty one
ListOrDefault_MissingOnly(args, key, default) ==
    IF key \in DOMAIN args THEN args[key] ELSE default

\* the value of an optional list argument after "if not x: x = default"
ListOrDefault(args, key, default) ==
    IF key \in DOMAIN args /\ args[key] # <<>> THEN args[key] ELSE default

\* the value of an optional argument with a default in the signature
ArgOrDefault(args, key, default) == IF key \in DOMAIN args THEN args[key] ELSE default

\* the first_names save_users generates from
SaveFirstNames(args) == ListOrDefault(args, "first_names", <<"John", "Jane", "Mike">>)

\* the data save_users gets from generate_sample_user.func
SaveData(args, rnd) ==
    generate_sample_user(SaveFirstNames(args),
                         ListOrDefault(args, "last_names", <<"Smith", "Jones", "Brown">>),
                         ListOrDefault(args, "domains", <<"example.com">>),
                         ArgOrDefault(args, "min_age", 18),
                         ArgOrDefault(args, "max_age", 65),
                         rnd)

\* what save_users returns once the file operations have had the outcome
\* written
SaveUsersResult(filepath, data, written) ==
    IF written.err # ""
    THEN ToolDone(PyStr("Error saving users: " \o written.err), written.files)
    ELSE ToolDone(PyStr("Saved " \o ToString(DictGet(data, "count").n) \o " users to '"
                        \o filepath \o "'."), written.files)

\* a save_users that writes what the generator returned before it looks for
\* an error in it
SaveUsersData_WriteFirst(files, filepath, data) ==
    IF DictHas(data, "error")
    THEN ToolDone(PyStr("Error generating users: " \o DictGet(data, "error").s),
                  WriteFile(files, filepath, JsonDumps(data, 2)).files)
    ELSE SaveUsersResult(filepath, data, WriteFile(files, filepath, JsonDumps(data, 2)))

\* the body of save_users once the generator has returned data
SaveUsersData(files, filepath, data) ==
    IF DictHas(data, "error")
    THEN ToolDone(PyStr("Error generating users: " \o DictGet(data, "error").s), files)
    ELSE SaveUsersResult(filepath, data, WriteFile(files, filepath, JsonDumps(data, 2)))

\* save_users(filepath, first_names=None, last_names=None, domains=None,
\*            min_age=18, max_age=65)
save_users(files, args, rnd) == SaveUsersData(files, args.filepath, SaveData(args, rnd))

(***************************************************************************)
(* The registry and tool.invoke                                            *)
(***************************************************************************)
TOOLS == <<"write_json", "read_json", "generate_sample_user", "save_users">>

\* the keys of TOOLS_BY_NAME
TOOLS_BY_NAME == {TOOLS[i] : i \in 1..Len(TOOLS)}

\* the parameters without a default in the tool's signature
RequiredArgs(name) ==
    CASE name = "write_json" -> <<"filepath", "data">>
      [] name = "read_json" -> <<"filepath">>
      [] name = "generate_sample_user" ->
            <<"first_names", "last_names", "domains", "min_age", "max_age">>
      [] name = "save_users" -> <<"filepath">>

\* the required parameters args lacks, in the signature's order
MissingArgs(name, args) == SelectSeq(RequiredArgs(name), LAMBDA key : key \notin DOMAIN args)

\* the outcome of tool.invoke: a value returned or an exception raised
Returned(v) == [raised |-> FALSE, value |-> v]

\* an exception of class cls whose str() is e
Raised(cls, e) == [raised |-> TRUE, cls |-> cls, exc |-> e]

\* str(e) of the ValidationError tool.invoke raises for arguments that do
\* not fit the tool's schema: the count, the tool and each field missing
\* (the input echo and the documentation link of the full text are left out)
ValidationErrorText(name, args) ==
    ToString(Len(MissingArgs(name, args))) \o " validation error for " \o name \o "\n"
    \o Join([i \in 1..Len(MissingArgs(name, args)) |->
                MissingArgs(name, args)[i] \o "\n  Field required"], "\n")

\* the lowest values the generator may yield, for n records
LowestDraws(n) == [j \in 1..n |-> CHOOSE d \in RawDraws : d.age = 0]

\* the records generated from names when the generator returns data
DrawsFor(names, data) == IF DictHas(data, "error") THEN 0 ELSE Len(names)

\* the number of records a call generates, and so draws for: found by
\* running the generator on its lowest values
DrawCount(name, args) ==
    IF MissingArgs(name, args) # <<>> THEN 0
    ELSE IF name = "generate_sample_user"
    THEN DrawsFor(args.first_names,
                  generate_sample_user(args.first_names, args.last_names, args.domains,
                                       args.min_age, args.max_age,
                                       LowestDraws(Len(args.first_names))))
    ELSE IF name = "save_users"
    THEN DrawsFor(SaveFirstNames(args),
                  SaveData(args, LowestDraws(Len(SaveFirstNames(args)))))
    ELSE 0

\* tool.invoke returns what the tool function returned
Invoked(done) == [out |-> Returned(done.value), files |-> done.files]

\* tool.invoke(args) of the registered tool name: the outcome and the file
\* system it leaves
ToolInvoke(name, args, files, rnd) ==
    IF MissingArgs(name, args) # <<>>
    THEN [out |-> Raised("ValidationError", ValidationErrorText(name, args)), files |-> files]
    ELSE Invoked(CASE name = "write_json" -> write_json(files, args.filepath, args.data)
                   [] name = "read_json" -> read_json(files, args.filepath)
                   [] name = "generate_sample_user" ->
                         ToolDone(generate_sample_user(args.first_names, args.last_names,
                                                       args.domains, args.min_age,
                                                       args.max_age, rnd), files)
                   [] name = "save_users" -> save_users(files, args, rnd))

(***************************************************************************)
(* Tool-level runs: one invocation of a registered tool                    *)
(***************************************************************************)
NoCall == [tool |-> "none"]

NoRet == [pending |-> TRUE]

\* the longest first_names list tried
MaxNames == 2

\* the largest age tried; the smallest is -1
MaxAge == 1

\* the first_names lists tried are the beginnings of this one
FirstNameSamples == <<"John", " Mary-Ann ", "O'Neil", "Li">>

FirstNameLists == {SubSeq(FirstNameSamples, 1, n) : n \in 0..MaxNames}

LastNameLists == {<<>>, <<"Smith">>, <<"Jones", "Brown">>}

DomainLists == {<<>>, <<" Example.COM ">>, <<"a.io", "B.org">>}

\* the file systems a run starts from
InitialFiles ==
    {[p \in Paths |-> Absent],
     [p \in Paths |-> CASE p = "a.json" -> RegularFile("{oops")
                        [] p = "data" -> Directory
                        [] OTHER -> Absent],
     [p \in Paths |-> CASE p = "a.json" -> RegularFile("{\"k\": [1, \"v\"]}")
                        [] p = "data" -> RegularFile("[]")
                        [] OTHER -> Absent]}

DataSamples ==
    {PyDict(<<>>),
     PyDict(<< KV("name", PyStr("Zoe")), KV("tags", PyList(<<PyInt(7), PyNone>>)) >>),
     PyDict(<< <<PyInt(7), PyStr("x")>> >>)}

\* the argument mappings the tools are tried on
GenArgs ==
    [first_names : FirstNameLists,
     last_names  : LastNameLists,
     domains     : DomainLists,
     min_age     : (-1)..MaxAge,
     max_age     : (-1)..MaxAge]
    \cup {[first_names |-> <<"John">>, last_names |-> <<"Smith">>]}

WriteArgs == [filepath : Paths, data : DataSamples] \cup {[filepath |-> "a.json"], <<>>}

ReadArgs == [filepath : Paths] \cup {<<>>}

SaveArgs ==
    [filepath : Paths]
    \cup [filepath : {"a.json"}, first_names : {<<"Al">>}, domains : {<<>>, <<"X.io">>}]
    \cup [filepath : {"data/u.json"}, last_names : {<<>>}, min_age : {3}, max_age : {2, 3}]
    \cup {[first_names |-> <<"Al">>]}

\* tool.invoke(args) on the file system as it stands, for each sequence of
\* values the random generator may yield
CallTool(name, args) ==
    \E rnd \in [1..DrawCount(name, args) -> RawDraws] :
       \E done \in {ToolInvoke(name, args, fs, rnd)} :
          /\ call' = [tool |-> name, args |-> args]
          /\ ret' = done.out
          /\ fs' = done.files
          /\ UNCHANGED <<chat_vars, other>>

CallWriteJson ==
    /\ call = NoCall
    /\ \E args \in WriteArgs : CallTool("write_json", args)

CallReadJson ==
    /\ call = NoCall
    /\ \E args \in ReadArgs : CallTool("read_json", args)

CallGenerate ==
    /\ call = NoCall
    /\ \E args \in GenArgs : CallTool("generate_sample_user", args)

CallSaveUsers ==
    /\ call = NoCall
    /\ \E args \in SaveArgs : CallTool("save_users", args)

\* a read_json that follows a write_json, nothing else in between
CallReadAfterWrite ==
    /\ call # NoCall
    /\ call.tool = "write_json"
    /\ \E args \in [filepath : Paths] : CallTool("read_json", args)

NoRequest == [message |-> "", history |-> <<>>]

\* one request only is in progress
NoOther == [id |-> 0]

ToolInit ==
    /\ call = NoCall
    /\ ret = NoRet
    /\ fs \in InitialFiles
    /\ req = NoRequest
    /\ pc = "idle"
    /\ messages = <<>>
    /\ rounds = 0
    /\ todo = <<>>
    /\ reply = NoRet
    /\ other = NoOther

ToolNext ==
    CallWriteJson \/ CallReadJson \/ CallGenerate \/ CallSaveUsers \/ CallReadAfterWrite

ToolSpec == ToolInit /\ [][ToolNext]_vars

(***************************************************************************)
(* Messages                                                                *)
(***************************************************************************)
SYSTEM_MESSAGE ==
    "You are DataGen, a helpful assistant that generates sample data for applications. "
    \o "To generate users, you need: first_names (list), last_names (list), domains (list), min_age, max_age. "
    \o "Fill these values yourself without asking if the user leaves them out. "
    \o "When asked to save users, prefer the save_users tool. If no filepath is provided, default to 'users.json'. "
    \o "If the user refers to 'those users' from a previous request, ask them to specify details again."

SystemMessage(content) == [role |-> "system", content |-> content]

HumanMessage(content) == [role |-> "human", content |-> content]

\* an AI message: content is a Python value, a str or a list of content blocks
AIMessage(content, tool_calls) == [role |-> "ai", content |-> content, tool_calls |-> tool_calls]

ToolMessage(content, tool_call_id) ==
    [role |-> "tool", content |-> content, tool_call_id |-> tool_call_id]

\* one tool-call descriptor of an AI message
ToolCall(name, args, id) == [name |-> name, args |-> args, id |-> id]

\* chat: the history of the request as messages
HistoryMsgs(history) ==
    [i \in 1..Len(history) |->
        IF history[i].role = "user" THEN HumanMessage(history[i].content)
        ELSE AIMessage(PyStr(history[i].content), <<>>)]

\* a conversation state that starts with the new message ahead of the history
InitialMessages_HistoryLast(r) ==
    <<SystemMessage(SYSTEM_MESSAGE)>> \o <<HumanMessage(r.message)>> \o HistoryMsgs(r.history)

\* run_chat: the conversation state it starts from
InitialMessages(r) ==
    <<SystemMessage(SYSTEM_MESSAGE)>> \o HistoryMsgs(r.history) \o <<HumanMessage(r.message)>>

(***************************************************************************)
(* The model: the replies llm_with_tools.invoke may give                   *)
(***************************************************************************)
\* the requests tried
RequestSamples ==
    {[message |-> "", history |-> <<>>],
     [message |-> "Save 1 user to data/u.json",
      history |-> <<[role |-> "user", content |-> "hi"],
                    [role |-> "assistant", content |-> "Hello!"]>>]}

\* the file systems a chat starts from, one for each request tried
ChatInitialFiles(r) ==
    IF r.history = <<>> THEN [p \in Paths |-> Absent]
    ELSE [p \in Paths |-> CASE p = "a.json" -> RegularFile("{oops")
                            [] p = "data" -> Directory
                            [] OTHER -> Absent]

\* the contents of the replies without tool calls
PlainContents ==
    {PyStr(" Done.\n"),
     PyStr(""),
     PyList(<< PyDict(<< KV("type", PyStr("text")), KV("text", PyStr("Hi")) >>) >>)}

\* a model that keeps asking to read the same file
SameCalls == << ToolCall("read_json", [filepath |-> "a.json"], "call_1") >>

\* the other lists of tool calls the model asks for
OtherCalls ==
    { << ToolCall("nope", <<>>, "call_1") >>,
      << ToolCall("Read_Json", [filepath |-> "a.json"], "call_1"),
         ToolCall("read_json", [filepath |-> "data"], "call_2"),
         ToolCall("save_users", [filepath |-> "a.json", min_age |-> 5, max_age |-> 3],
                  "call_3") >>,
      << ToolCall("read_json", <<>>, "call_1"),
         ToolCall("write_json", [filepath |-> "a.json", data |-> PyDict(<< KV("k", PyInt(1)) >>)],
                  "call_2") >>,
      << ToolCall("write_json", [filepath |-> "data/u.json", data |-> PyDict(<<>>)], "call_2"),
         ToolCall("read_json", [filepath |-> "data/u.json"], "call_1") >>,
      << ToolCall("save_users", [filepath |-> "data/u.json", first_names |-> <<"Al">>,
                                 min_age |-> 30, max_age |-> 30], "call_1"),
         ToolCall("generate_sample_user",
                  [first_names |-> <<"Bo">>, last_names |-> <<"Li">>, domains |-> <<"X.io">>,
                   min_age |-> 7, max_age |-> 7], "call_1") >>,
      << ToolCall("generate_sample_user", [first_names |-> <<"Bo">>], ""),
         ToolCall("WRITE_JSON", <<>>, "call_2"),
         ToolCall("write_json", [filepath |-> "a.json", data |-> PyDict(<<>>)], "call_3") >> }

\* the rounds of a run in which the model may ask for other calls than
\* SameCalls
MaxVaried == 1

\* the rounds so far in which the model asked for other calls than SameCalls
VariedRounds(ms) ==
    Cardinality({i \in 1..Len(ms) :
                    ms[i].role = "ai" /\ ms[i].tool_calls \notin {<<>>, SameCalls}})

\* the requests tried two at a time
PairRequests ==
    {[message |-> "keep", history |-> <<>>],
     [message |-> "once", history |-> <<[role |-> "user", content |-> "hi"]>>]}

\* what the user asks in the conversation ms: its last human message
Asked(ms) ==
    ms[CHOOSE i \in 1..Len(ms) :
          ms[i].role = "human" /\ \A j \in (i + 1)..Len(ms) : ms[j].role # "human"].content

\* the calls that write what was asked to a.json and read the file back, with
\* a call of a tool that does not exist in between unless asked to keep on
WriteAndRead(asked) ==
    << ToolCall("write_json",
                [filepath |-> "a.json", data |-> PyDict(<< KV("by", PyStr(asked)) >>)],
                "call_1") >>
    \o (IF asked = "keep" THEN <<>> ELSE << ToolCall("nope", <<>>, "call_2") >>)
    \o << ToolCall("read_json", [filepath |-> "a.json"], "call_3") >>

\* the replies to the requests tried two at a time: asked to keep a.json, the
\* model asks for the same calls in every round; asked once, it asks for them
\* in the first round and answers in the second
PairReplies(ms) ==
    IF Asked(ms) = "keep" \/ ms[Len(ms)].role = "human"
    THEN {AIMessage(PyStr(""), WriteAndRead(Asked(ms)))}
    ELSE {AIMessage(PyStr("Done."), <<>>)}

\* the replies the model may give to the conversation ms
ModelReplies(ms) ==
    IF Asked(ms) \in {r.message : r \in PairRequests}
    THEN PairReplies(ms)
    ELSE {AIMessage(c, <<>>) : c \in PlainContents}
         \cup {AIMessage(PyStr(""), SameCalls)}
         \cup (IF VariedRounds(ms) < MaxVaried
               THEN {AIMessage(PyStr("Let me check."), tcs) : tcs \in OtherCalls}
               ELSE {})

(***************************************************************************)
(* run_chat                                                                *)
(***************************************************************************)
\* a cap of one round more
MAX_ROUNDS_OneMore == 8 + 1

\* range(8): the cap on the rounds
MAX_ROUNDS == 8

\* the reply's content returned with the whitespace around it removed
ReplyText_Stripped(ai) ==
    IF ai.content.t = "str" THEN StrStrip(ai.content.s, Whitespace)
    ELSE JsonDumps(ai.content, NoIndent)

\* what run_chat returns for a reply without tool calls
ReplyText(ai) ==
    IF ai.content.t = "str" THEN ai.content.s ELSE JsonDumps(ai.content, NoIndent)

\* the model answers: the reply is appended; without tool calls run_chat
\* returns its content, with tool calls the round goes on to execute them
InvokeModel ==
    /\ pc = "invoke"
    /\ rounds < MAX_ROUNDS
    /\ \E ai \in ModelReplies(messages) :
          /\ messages' = Append(messages, ai)
          /\ rounds' = rounds + 1
          /\ IF ai.tool_calls = <<>>
             THEN /\ pc' = "returned"
                  /\ reply' = Returned(PyStr(ReplyText(ai)))
                  /\ todo' = <<>>
             ELSE /\ pc' = "tools"
                  /\ reply' = reply
                  /\ todo' = ai.tool_calls
    /\ UNCHANGED <<fs, call, ret, req, other>>

\* llm_with_tools.invoke raises (no API key, the network, a timeout after
\* the retry): nothing in run_chat catches it
ModelFails ==
    /\ pc = "invoke"
    /\ rounds < MAX_ROUNDS
    /\ rounds' = rounds + 1
    /\ pc' = "raised"
    /\ reply' = Raised("APIConnectionError", "Connection error.")
    /\ UNCHANGED <<fs, call, ret, req, messages, todo, other>>

\* a loop that takes the calls from the end
NextCall_Last(tcs) == tcs[Len(tcs)]

\* for tc in tool_calls: the call the loop takes next
NextCall(tcs) == Head(tcs)

\* TOOLS_BY_NAME.get(name) finds a tool
Registered(name) == name \in TOOLS_BY_NAME

\* a loop that leaves the round after one tool call ("break")
AfterToolCall_Break ==
    /\ todo' = <<>>
    /\ pc' = "invoke"
    /\ UNCHANGED <<req, rounds, reply>>

\* a loop that gives up the calls left in its last round
AfterToolCall_LastRoundCut ==
    /\ todo' = IF rounds = MAX_ROUNDS THEN <<>> ELSE Tail(todo)
    /\ pc' = IF todo' = <<>> THEN "invoke" ELSE "tools"
    /\ UNCHANGED <<req, rounds, reply>>

\* the step after a tool call: the next call of the round, or the next round
AfterToolCall ==
    /\ todo' = Tail(todo)
    /\ pc' = IF Tail(todo) = <<>> THEN "invoke" ELSE "tools"
    /\ UNCHANGED <<req, rounds, reply>>

\* an error string that does not say which name was asked for
UnknownToolText_NoName(name) == "Error: unknown tool"

\* the content of the Tool message for a name that is not registered
UnknownToolText(name) == "Error: unknown tool '" \o name \o "'"

\* a tool call whose name is not in TOOLS_BY_NAME
DispatchUnknown ==
    /\ pc = "tools"
    /\ ~Registered(NextCall(todo).name)
    /\ messages' = Append(messages,
                          ToolMessage(UnknownToolText(NextCall(todo).name),
                                      NextCall(todo).id))
    /\ AfterToolCall
    /\ UNCHANGED <<fs, call, ret, other>>

\* an "except OSError" in place of "except Exception"
CaughtByExcept_OnlyOSError(cls) == cls \in {"OSError", "FileNotFoundError"}

\* "except Exception" catches an exception of class cls
CaughtByExcept(cls) == cls \notin {"KeyboardInterrupt", "SystemExit", "GeneratorExit"}

\* the error string made of the exception caught
ToolErrorText(name, e) == "Error running tool '" \o name \o "': " \o e

\* the result of a tool call: the value tool.invoke returned, or the error
\* string of the exception caught
ResultOf(name, out) == IF out.raised THEN PyStr(ToolErrorText(name, out.exc)) ELSE out.value

\* a tool call whose name is in TOOLS_BY_NAME
DispatchTool ==
    /\ pc = "tools"
    /\ Registered(NextCall(todo).name)
    /\ UNCHANGED other
    /\ \E rnd \in [1..DrawCount(NextCall(todo).name, NextCall(todo).args) -> RawDraws] :
       \E tc \in {NextCall(todo)} :
          \E done \in {ToolInvoke(tc.name, tc.args, fs, rnd)} :
             /\ call' = [tool |-> tc.name, args |-> tc.args]
             /\ ret' = done.out
             /\ fs' = done.files
             /\ IF done.out.raised /\ ~CaughtByExcept(done.out.cls)
                THEN /\ pc' = "raised"
                     /\ reply' = done.out
                     /\ UNCHANGED <<req, rounds, messages, todo>>
                ELSE /\ messages' = Append(messages,
                                           ToolMessage(PyStrOf(ResultOf(tc.name, done.out)),
                                                       tc.id))
                     /\ AfterToolCall

\* what run_chat returns when the cap is reached
ExhaustedText == "Error: exceeded tool-calling loop limit."

\* the cap is reached without a reply free of tool calls
LoopExhausted ==
    /\ pc = "invoke"
    /\ rounds = MAX_ROUNDS
    /\ pc' = "returned"
    /\ reply' = Returned(PyStr(ExhaustedText))
    /\ UNCHANGED <<fs, call, ret, req, messages, rounds, todo, other>>

\* chat has called run_chat, which has built the conversation state
Init ==
    /\ req \in RequestSamples
    /\ fs = ChatInitialFiles(req)
    /\ call = NoCall
    /\ ret = NoRet
    /\ pc = "invoke"
    /\ messages = InitialMessages(req)
    /\ rounds = 0
    /\ todo = <<>>
    /\ reply = NoRet
    /\ other = NoOther

Next == InvokeModel \/ ModelFails \/ DispatchUnknown \/ DispatchTool \/ LoopExhausted

Spec == Init /\ [][Next]_vars

(***************************************************************************)
(* _slugify on its own, applied to a string and then to its own result     *)
(***************************************************************************)
\* the longest string _slugify is tried on
MaxSlugLen == 3

\* the characters of the strings tried: a letter of each case, a digit, and
\* characters outside a-z0-9, the "." among them
SlugChars == {"a", "Z", "7", " ", ".", "-"}

RECURSIVE StringsUpTo(_)
\* the strings of at most n of these characters
StringsUpTo(n) ==
    IF n = 0 THEN {""}
    ELSE StringsUpTo(n - 1) \cup {s \o c : s \in StringsUpTo(n - 1), c \in SlugChars}

SlugInit ==
    /\ req \in [message : StringsUpTo(MaxSlugLen), history : {<<>>}]
    /\ fs = [p \in Paths |-> Absent]
    /\ call = NoCall
    /\ ret = NoRet
    /\ pc = "idle"
    /\ messages = <<>>
    /\ rounds = 0
    /\ todo = <<>>
    /\ reply = NoRet
    /\ other = NoOther

\* _slugify(s) for the string of the state
CallSlugify ==
    /\ call = NoCall
    /\ call' = [tool |-> "_slugify", args |-> [s |-> req.message]]
    /\ ret' = Returned(PyStr(_slugify(req.message)))
    /\ UNCHANGED <<fs, chat_vars, other>>

\* _slugify applied to what _slugify has returned
CallSlugifyAgain ==
    /\ call # NoCall
    /\ call.tool = "_slugify"
    /\ call' = [tool |-> "_slugify", args |-> [s |-> ret.value.s]]
    /\ ret' = Returned(PyStr(_slugify(ret.value.s)))
    /\ UNCHANGED <<fs, chat_vars, other>>

SlugNext == CallSlugify \/ CallSlugifyAgain

SlugSpec == SlugInit /\ [][SlugNext]_vars

(***************************************************************************)
(* Two requests.  chat is a plain def, which the server runs in a thread   *)
(* of its pool for each request: the steps of two requests interleave.     *)
(* The variables of run_chat are those of the thread that is running.      *)
(***************************************************************************)
\* the request of the running thread as it is put aside, under the id given
Suspended(id) ==
    [id |-> id, req |-> req, pc |-> pc, messages |-> messages, rounds |-> rounds,
     todo |-> todo, reply |-> reply]

\* threads that share one list of messages
Switch_SharedMessages ==
    /\ other # NoOther
    /\ other.pc \in {"invoke", "tools"}
    /\ other' = Suspended(3 - other.id)
    /\ req' = other.req
    /\ pc' = other.pc
    /\ messages' = messages
    /\ rounds' = other.rounds
    /\ todo' = other.todo
    /\ reply' = other.reply
    /\ UNCHANGED <<fs, call, ret>>

\* the other thread runs on: each thread has its own req, history_msgs,
\* messages, loop counter and reply_text, the locals of chat and run_chat
Switch ==
    /\ other # NoOther
    /\ other.pc \in {"invoke", "tools"}
    /\ other' = Suspended(3 - other.id)
    /\ req' = other.req
    /\ pc' = other.pc
    /\ messages' = other.messages
    /\ rounds' = other.rounds
    /\ todo' = other.todo
    /\ reply' = other.reply
    /\ UNCHANGED <<fs, call, ret>>

\* two requests have come in and each thread has built its conversation state
PairInit ==
    /\ req \in PairRequests
    /\ \E r \in PairRequests :
          other = [id |-> 2, req |-> r, pc |-> "invoke", messages |-> InitialMessages(r),
                   rounds |-> 0, todo |-> <<>>, reply |-> NoRet]
    /\ fs \in {ChatInitialFiles(r) : r \in RequestSamples}
    /\ call = NoCall
    /\ ret = NoRet
    /\ pc = "invoke"
    /\ messages = InitialMessages(req)
    /\ rounds = 0
    /\ todo = <<>>
    /\ reply = NoRet

PairNext ==
    InvokeModel \/ ModelFails \/ DispatchUnknown \/ DispatchTool \/ LoopExhausted \/ Switch

PairSpec == PairInit /\ [][PairNext]_vars

(***************************************************************************)
(* Claims about run_chat                                                   *)
(***************************************************************************)
\* the number of messages run_chat starts from
RunStart == Len(InitialMessages(req))

\* the places of the model's replies in the conversation state
RunReplies == {i \in (RunStart + 1)..Len(messages) : messages[i].role = "ai"}

\* the places of the AI messages that carry tool calls
CallingReplies == {i \in 1..Len(messages) :
                      messages[i].role = "ai" /\ messages[i].tool_calls # <<>>}

\* run_chat has ended, by returning or by raising
Ended == pc \in {"returned", "raised"}

\* the names a tool is registered under
RegisteredNames == {"write_json", "read_json", "generate_sample_user", "save_users"}

\* at most 8 model invocations; after 8 replies that all carry tool calls
\* the result is the fixed string
C1_Bounded ==
    /\ rounds <= 8
    /\ Cardinality(RunReplies) <= rounds
    /\ pc = "tools" => todo # <<>>
    /\ (pc = "returned" /\ Cardinality(RunReplies) = 8
        /\ \A i \in RunReplies : messages[i].tool_calls # <<>>)
          => /\ reply = Returned(PyStr("Error: exceeded tool-calling loop limit."))
             /\ todo = <<>>
             /\ messages[Len(messages)].role = "tool"

\* what is left of the round under way: the tool calls to process, and the
\* return itself
Phase == Len(todo) + (IF Ended THEN 0 ELSE 1)

\* a step uses up a model invocation of the 8, or else a part of the round
\* under way: no run takes steps for ever
C1_Decreases ==
    \/ rounds < rounds' /\ rounds' <= 8
    \/ rounds' = rounds /\ Phase' < Phase

\* C1: for every model behaviour and every history, run_chat ends after at
\* most 8 model invocations; when each of the 8 replies carries at least one
\* tool call, it returns exactly "Error: exceeded tool-calling loop limit."
\* after the 8th round, without a 9th model invocation.
C1_LoopCap == []C1_Bounded /\ [][C1_Decreases]_vars

\* eight replies with tool calls, all answered, and the fixed string returned
C1_Witness ==
    /\ pc = "returned"
    /\ rounds = 8
    /\ Cardinality(CallingReplies) = 8
    /\ reply = Returned(PyStr("Error: exceeded tool-calling loop limit."))

\* the n tool calls of the AI message at i are answered by the n messages
\* after it, Tool messages with the calls' ids, and by no further one
Answered(i) ==
    LET tcs == messages[i].tool_calls
    IN  /\ i + Len(tcs) <= Len(messages)
        /\ \A k \in 1..Len(tcs) :
              /\ messages[i + k].role = "tool"
              /\ messages[i + k].tool_call_id = tcs[k].id
        /\ (i + Len(tcs) < Len(messages)) => messages[i + Len(tcs) + 1].role # "tool"

\* C2: at every model invocation, every tool call carried by an AI message
\* of the conversation state has exactly one corresponding Tool message in
\* the state, none missing and none duplicated, whatever its outcome was.
C2_OneToolMessagePerCall ==
    (pc = "invoke")
        => /\ \A i \in CallingReplies : Answered(i)
           /\ \A j \in 1..Len(messages) :
                 messages[j].role = "tool" => j > 1 /\ messages[j - 1].role \in {"ai", "tool"}

\* a round of three calls answered before the next invocation: a failed
\* execution, an unknown tool and a success
C2_Witness ==
    /\ pc = "invoke"
    /\ \E i \in CallingReplies :
          /\ Len(messages[i].tool_calls) = 3
          /\ Answered(i)
          /\ StartsAt(messages[i + 1].content, 1, "Error running tool 'generate_sample_user'")
          /\ messages[i + 2].content = "Error: unknown tool 'WRITE_JSON'"
          /\ StartsAt(messages[i + 3].content, 1, "Successfully wrote JSON")

\* the Tool messages after the AI message at i answer its first calls, in
\* the calls' order and with the calls' ids
AnsweredInOrder(i) ==
    LET tcs == messages[i].tool_calls
        last == i = Len(messages) \/ \A j \in (i + 1)..Len(messages) : messages[j].role = "tool"
        n == IF last THEN Len(messages) - i ELSE Len(tcs)
    IN  /\ n <= Len(tcs)
        /\ i + n <= Len(messages)
        /\ \A k \in 1..n : /\ messages[i + k].role = "tool"
                           /\ messages[i + k].tool_call_id = tcs[k].id
        /\ last => /\ todo = SubSeq(tcs, n + 1, Len(tcs))
                   /\ (n >= 1 /\ tcs[n].name \in RegisteredNames)
                         => call = [tool |-> tcs[n].name, args |-> tcs[n].args]
                   /\ (pc = "tools") <=> (n < Len(tcs))

\* C3: within a round whose AI reply carries tool calls c1..cn, the calls are
\* processed one after another in that order, and the Tool messages appended
\* right after the AI message carry the ids id(c1)..id(cn) in exactly that
\* order, each the id of its own call.
C3_CallOrder == \A i \in CallingReplies : AnsweredInOrder(i)

\* a round whose calls carry the ids call_2, call_1, answered in that order
C3_Witness ==
    \E i \in CallingReplies :
       /\ Len(messages[i].tool_calls) = 2
       /\ messages[i].tool_calls[1].id = "call_2"
       /\ messages[i].tool_calls[2].id = "call_1"
       /\ i + 2 <= Len(messages)
       /\ messages[i + 1].tool_call_id = "call_2"
       /\ messages[i + 2].tool_call_id = "call_1"
       /\ StartsAt(messages[i + 1].content, 1, "Successfully wrote JSON to 'data/u.json'")
       /\ StartsAt(messages[i + 2].content, 1, "{}")

\* C4: in any round, if the model's reply carries no tool calls, run_chat
\* returns at once that reply's content, unchanged when it is text (its JSON
\* serialisation otherwise): no tool is executed and no model invocation
\* happens after that reply.
C4_PlainReplyReturned ==
    \A i \in RunReplies :
       messages[i].tool_calls = <<>>
          => /\ i = Len(messages)
             /\ pc = "returned"
             /\ todo = <<>>
             /\ messages[i].content.t = "str" => reply = Returned(messages[i].content)
             /\ messages[i].content.t # "str"
                   => reply = Returned(PyStr(JsonDumps(messages[i].content, NoIndent)))
             /\ ~ENABLED Next

\* a reply without tool calls in the 8th round, its text returned with the
\* whitespace around it
C4_Witness ==
    /\ rounds = 8
    /\ Len(messages) \in RunReplies
    /\ messages[Len(messages)].tool_calls = <<>>
    /\ messages[Len(messages)].content = PyStr(" Done.\n")
    /\ reply = Returned(PyStr(" Done.\n"))

\* the step appends one message, a Tool message that answers the call tc
AppendsToolMessage(tc) ==
    /\ Len(messages') = Len(messages) + 1
    /\ SubSeq(messages', 1, Len(messages)) = messages
    /\ messages'[Len(messages')].role = "tool"
    /\ messages'[Len(messages')].tool_call_id = tc.id

\* the step leaves run_chat in its loop: nothing is returned or raised, the
\* calls after tc are the ones to process next and, after the last of them,
\* the model is invoked again
LoopGoesOn ==
    /\ reply' = reply
    /\ rounds' = rounds
    /\ todo' = Tail(todo)
    /\ pc' = IF Tail(todo) = <<>> THEN "invoke" ELSE "tools"

\* the tool call processed fails: tool.invoke of a registered tool raises
C5_Step ==
    (pc = "tools" /\ Head(todo).name \in RegisteredNames /\ ret'.raised)
        => /\ AppendsToolMessage(Head(todo))
           /\ StartsAt(messages'[Len(messages')].content, 1, "Error")
           /\ Contains(messages'[Len(messages')].content, Head(todo).name)
           /\ Contains(messages'[Len(messages')].content, ret'.exc)
           /\ LoopGoesOn

\* C5: when a tool call names a registered tool and its execution fails (the
\* invocation raises), the failure is not propagated out of run_chat: a Tool
\* message whose content is an error string containing the tool name and the
\* failure detail is appended, the remaining tool calls of the round are
\* still processed, and the loop goes on to the next round.
C5_ToolFailureRecovered == [][C5_Step]_vars

\* a registered tool has raised, its error is the last message, and a call
\* of the same round is still to process
C5_Witness ==
    /\ pc = "tools"
    /\ call = [tool |-> "read_json", args |-> <<>>]
    /\ ret.raised
    /\ messages[Len(messages)].role = "tool"
    /\ messages[Len(messages)].content = "Error running tool 'read_json': " \o ret.exc
    /\ Len(todo) = 1

\* the tool call processed names no registered tool
C6_Step ==
    (pc = "tools" /\ Head(todo).name \notin RegisteredNames)
        => /\ UNCHANGED <<fs, call, ret>>
           /\ AppendsToolMessage(Head(todo))
           /\ StartsAt(messages'[Len(messages')].content, 1, "Error")
           /\ Contains(messages'[Len(messages')].content, "'" \o Head(todo).name \o "'")
           /\ LoopGoesOn

\* C6: when a tool call names a tool that is not in the registry (exact,
\* case-sensitive match), no tool is executed for it, a Tool message is
\* appended whose content is an error string containing the requested name,
\* nothing is raised, and the loop is not aborted: the later tool calls of
\* the round and the next model invocation still happen.
C6_UnknownToolReported == [][C6_Step]_vars

\* a name that differs from a registered one by its case only is answered as
\* unknown, no tool has run, and two calls of the round are still to process
C6_Witness ==
    /\ pc = "tools"
    /\ messages[Len(messages)].role = "tool"
    /\ messages[Len(messages)].content = "Error: unknown tool 'Read_Json'"
    /\ call = NoCall
    /\ Len(todo) = 2

\* C7: every error arising below the conversation loop is recovered locally
\* and surfaced as message content; the only failure run_chat surfaces to its
\* caller is the fixed loop-exhaustion string, so every run ends by returning
\* either a model reply's text or the exhaustion string.
C7_OnlyExhaustionSurfaced ==
    Ended => /\ pc = "returned"
             /\ ~reply.raised
             /\ \/ reply = Returned(PyStr("Error: exceeded tool-calling loop limit."))
                \/ /\ messages[Len(messages)].role = "ai"
                   /\ messages[Len(messages)].content.t = "str"
                   /\ reply = Returned(messages[Len(messages)].content)
                \/ /\ messages[Len(messages)].role = "ai"
                   /\ messages[Len(messages)].content.t # "str"

(***************************************************************************)
(* Claims about the tools                                                  *)
(***************************************************************************)
\* a tool was invoked
Called == call # NoCall

\* the arguments of the call fit the tool's schema: none that is required is
\* missing
FitsSchema ==
    CASE call.tool = "write_json" -> {"filepath", "data"} \subseteq DOMAIN call.args
      [] call.tool = "read_json" -> "filepath" \in DOMAIN call.args
      [] call.tool = "save_users" -> "filepath" \in DOMAIN call.args
      [] call.tool = "generate_sample_user" ->
            {"first_names", "last_names", "domains", "min_age", "max_age"}
                \subseteq DOMAIN call.args

\* {"error": reason} or {"users": [...], "count": n}
IsGeneratorResult(r) ==
    /\ r.t = "dict"
    /\ \/ Len(r.kvs) = 1 /\ r.kvs[1][1] = PyStr("error") /\ r.kvs[1][2].t = "str"
       \/ /\ Len(r.kvs) = 2
          /\ r.kvs[1][1] = PyStr("users") /\ r.kvs[1][2].t = "list"
          /\ r.kvs[2][1] = PyStr("count") /\ r.kvs[2][2].t = "int"

\* C8 as stated: every tool in the registry returns a string for every
\* input, never a structured object, and never throws past its own boundary.
C8_AlwaysString == Called => (~ret.raised /\ ret.value.t = "str")

\* C8 as amended: for arguments that fit their schema, write_json, read_json
\* and save_users return a string and generate_sample_user returns a
\* structured object, {error} or {users, count}, and none of them raises; for
\* arguments that miss a required parameter the invocation raises a
\* validation error and the tool's body does not run.
C8_ResultTypes ==
    Called
        => IF FitsSchema
           THEN /\ ~ret.raised
                /\ call.tool = "generate_sample_user" => IsGeneratorResult(ret.value)
                /\ call.tool # "generate_sample_user" => ret.value.t = "str"
           ELSE /\ ret.raised
                /\ ret.cls = "ValidationError"
                /\ fs \in InitialFiles

\* read_json has returned the pretty-printed text of a file of valid JSON
C8_Witness ==
    /\ call = [tool |-> "read_json", args |-> [filepath |-> "a.json"]]
    /\ ~ret.raised
    /\ ret.value = PyStr("{\n  \"k\": [\n    1,\n    \"v\"\n  ]\n}")

(***************************************************************************)
(* Claims about generate_sample_user                                       *)
(***************************************************************************)
\* generate_sample_user was invoked with arguments that fit its schema
GenCalled == call.tool = "generate_sample_user" /\ ~ret.raised

\* the validation checks an argument tuple fails, numbered in the order
\* first_names, last_names, domains, min_age > max_age, negative age
FailedChecks(a) ==
    {k \in 1..5 :
        \/ k = 1 /\ a.first_names = <<>>
        \/ k = 2 /\ a.last_names = <<>>
        \/ k = 3 /\ a.domains = <<>>
        \/ k = 4 /\ a.min_age > a.max_age
        \/ k = 5 /\ (a.min_age < 0 \/ a.max_age < 0)}

\* the words that tell the reason of check k from the other reasons
CheckPhrase(k) ==
    CASE k = 1 -> "first_names"
      [] k = 2 -> "last_names"
      [] k = 3 -> "domains"
      [] k = 4 -> "cannot be greater than"
      [] k = 5 -> "non-negative"

Earliest(ks) == CHOOSE k \in ks : \A j \in ks : k <= j

\* r is {"error": reason} and nothing else, the reason being that of check k
IsErrorOfCheck(r, k) ==
    /\ r.t = "dict"
    /\ Len(r.kvs) = 1
    /\ r.kvs[1][1] = PyStr("error")
    /\ r.kvs[1][2].t = "str"
    /\ \A j \in 1..5 : Contains(r.kvs[1][2].s, CheckPhrase(j)) <=> (j = k)

\* C9: for every input failing one or more validation checks,
\* generate_sample_user returns a single {error} whose reason is that of the
\* earliest failing check in the order first_names, last_names, domains,
\* min_age > max_age, negative age, and it generates no users.
C9_ValidationOrder ==
    (GenCalled /\ FailedChecks(call.args) # {})
        => IsErrorOfCheck(ret.value, Earliest(FailedChecks(call.args)))

\* an input with non-empty lists that fails both age checks, answered with
\* the min_age > max_age reason
C9_Witness ==
    /\ GenCalled
    /\ FailedChecks(call.args) = {4, 5}
    /\ IsErrorOfCheck(ret.value, 4)

\* r is {"users": [...], "count": n} with n records
IsUsersResult(r, n) ==
    /\ r.t = "dict"
    /\ DictHas(r, "users") /\ DictHas(r, "count")
    /\ DictGet(r, "count") = PyInt(n)
    /\ DictGet(r, "users").t = "list"
    /\ Len(DictGet(r, "users").xs) = n

AgesOf(r) == {DictGet(u, "age").n : u \in {DictGet(r, "users").xs[i] :
                                            i \in 1..Len(DictGet(r, "users").xs)}}

\* C10: for non-empty first_names, last_names and domains and ages with
\* 0 <= min_age <= max_age, generate_sample_user returns a result with
\* count = len(first_names) = number of user records, and every record's age
\* lies in [min_age, max_age].
C10_CountAndAges ==
    (GenCalled /\ FailedChecks(call.args) = {})
        => /\ IsUsersResult(ret.value, Len(call.args.first_names))
           /\ \A a \in AgesOf(ret.value) : call.args.min_age <= a /\ a <= call.args.max_age

\* two records generated from a range of two ages, both ends drawn
C10_Witness ==
    /\ GenCalled
    /\ FailedChecks(call.args) = {}
    /\ Len(call.args.first_names) = 2
    /\ call.args.min_age < call.args.max_age
    /\ IsUsersResult(ret.value, 2)
    /\ AgesOf(ret.value) = {call.args.min_age, call.args.max_age}

\* the records of the result r
UsersOf(r) == DictGet(r, "users").xs

\* s ends with t
EndsWith(s, t) == Len(t) <= Len(s) /\ SubSeq(s, Len(s) - Len(t) + 1, Len(s)) = t

\* the domain part an email gets from the domain argument dom of the inputs
\* tried: dom without the whitespace around it, in lower case
DomainPart(dom) ==
    CASE dom = " Example.COM " -> "example.com"
      [] dom = "a.io" -> "a.io"
      [] dom = "B.org" -> "b.org"

\* the element of xs paired round-robin with the 1-based position k
Cycled(xs, k) == xs[((k - 1) % Len(xs)) + 1]

\* C11: for valid inputs to generate_sample_user, the record at 0-based
\* position i has id i+1, firstName first_names[i], lastName
\* last_names[i mod len(last_names)] and an email whose domain part derives
\* from domains[i mod len(domains)]: shorter last-name and domain lists are
\* paired round-robin.
C11_RoundRobin ==
    (GenCalled /\ FailedChecks(call.args) = {})
        => /\ Len(UsersOf(ret.value)) = Len(call.args.first_names)
           /\ \A k \in 1..Len(UsersOf(ret.value)) :
                 LET u == UsersOf(ret.value)[k]
                 IN  /\ DictGet(u, "id") = PyInt(k)
                     /\ DictGet(u, "firstName") = PyStr(call.args.first_names[k])
                     /\ DictGet(u, "lastName") = PyStr(Cycled(call.args.last_names, k))
                     /\ EndsWith(DictGet(u, "email").s,
                                 "@" \o DomainPart(Cycled(call.args.domains, k)))

\* two first names over one last name and two domains: the second record
\* takes the last name of the first and the second domain
C11_Witness ==
    /\ GenCalled
    /\ FailedChecks(call.args) = {}
    /\ Len(call.args.first_names) = 2
    /\ call.args.last_names = <<"Smith">>
    /\ call.args.domains = <<"a.io", "B.org">>
    /\ DictGet(UsersOf(ret.value)[2], "id") = PyInt(2)
    /\ DictGet(UsersOf(ret.value)[2], "lastName") = PyStr("Smith")
    /\ DictGet(UsersOf(ret.value)[2], "email") = PyStr("mary.ann.smith@b.org")

(***************************************************************************)
(* Claims about save_users, write_json and read_json                       *)
(***************************************************************************)
\* the step is an invocation of the tool name that runs the tool's body
Invokes(name) == call = NoCall /\ call'.tool = name /\ ~ret'.raised

\* the value of the argument key of the call made, default when it is left out
ArgOf(key, default) == IF key \in DOMAIN call'.args THEN call'.args[key] ELSE default

\* the ages save_users passes on are refused by the generator
AgesRefused ==
    \/ ArgOf("min_age", 18) > ArgOf("max_age", 65)
    \/ ArgOf("min_age", 18) < 0
    \/ ArgOf("max_age", 65) < 0

\* the number of users save_users asks for
SaveCount ==
    IF ArgOf("first_names", <<>>) = <<>> THEN 3 ELSE Len(call'.args.first_names)

\* a file can be written at p: p is no directory and the directory of p is
\* there or can be made
Writable(files, p) ==
    /\ files[p].kind # "dir"
    /\ Parent(p) # "." => files[Parent(p)].kind # "file"

\* the generator's error is returned and the file system left as it was
SaveRefused ==
    /\ StartsAt(ret'.value.s, 1, "Error generating users: ")
    /\ \/ Contains(ret'.value.s, "cannot be greater than")
       \/ Contains(ret'.value.s, "non-negative")
    /\ fs' = fs

\* the text decodes to the {users, count} result of n users
HoldsUsers(loaded, n) == loaded.ok /\ IsUsersResult(loaded.v, n)

\* the file at filepath holds the {users, count} result, and the string
\* returned names the count and the path
SaveDone ==
    LET p == call'.args.filepath
    IN  /\ ret'.value = PyStr("Saved " \o ToString(SaveCount) \o " users to '" \o p \o "'.")
        /\ fs'[p].kind = "file"
        /\ HoldsUsers(JsonLoads(fs'[p].text), SaveCount)
        /\ \A q \in Paths \ {p, Parent(p)} : fs'[q] = fs[q]

\* an I/O error string is returned and filepath left as it was
SaveIoError ==
    /\ StartsAt(ret'.value.s, 1, "Error saving users: ")
    /\ fs'[call'.args.filepath] = fs[call'.args.filepath]

\* C12 as stated: save_users writes to filepath only when generation
\* succeeds: if the generator returns an error, save_users returns the
\* generator's error string and leaves the file system unchanged; if
\* generation succeeds, the file at filepath holds the full {users, count}
\* result and the returned string names that count and path.
C12_SavedWheneverGenerated ==
    [][Invokes("save_users") => IF AgesRefused THEN SaveRefused ELSE SaveDone]_vars

\* C12 as amended: if the generator returns an error, save_users returns a
\* string with the generator's error and leaves the file system unchanged;
\* if generation succeeds and the file can be written, the file at filepath
\* holds the full {users, count} result and the returned string names that
\* count and path; if generation succeeds and the file cannot be written,
\* save_users returns an I/O error string and filepath is left as it was.
C12_SavedUnlessIoError ==
    [][Invokes("save_users")
          => IF AgesRefused THEN SaveRefused
             ELSE IF Writable(fs, call'.args.filepath) THEN SaveDone
             ELSE SaveIoError]_vars

\* three users saved to a file whose directory save_users has made
C12_Witness ==
    /\ call = [tool |-> "save_users", args |-> [filepath |-> "data/u.json"]]
    /\ ret = Returned(PyStr("Saved 3 users to 'data/u.json'."))
    /\ fs["data"] = Directory
    /\ fs["data/u.json"].kind = "file"
    /\ fs["a.json"] = Absent

\* the step reads back, with read_json, the path a successful write_json has
\* just written
ReadsBack ==
    /\ call # NoCall
    /\ call.tool = "write_json"
    /\ ~ret.raised
    /\ StartsAt(ret.value.s, 1, "Successfully wrote JSON")
    /\ call'.tool = "read_json"
    /\ "filepath" \in DOMAIN call'.args
    /\ call'.args.filepath = call.args.filepath

\* text is the indented JSON that decodes to data
PrettyOf(text, loaded, data) ==
    /\ loaded.ok
    /\ loaded.v = data
    /\ text = JsonDumps(loaded.v, 2)

\* what read_json returns is the indented JSON that decodes to data
ReturnsData(data) ==
    /\ ~ret'.raised
    /\ ret'.value.t = "str"
    /\ PrettyOf(ret'.value.s, JsonLoads(ret'.value.s), data)

RECURSIVE StringKeyed(_)
\* every key of every mapping in v is a string
StringKeyed(v) ==
    CASE v.t = "dict" -> \A i \in 1..Len(v.kvs) :
                            v.kvs[i][1].t = "str" /\ StringKeyed(v.kvs[i][2])
      [] v.t = "list" -> \A i \in 1..Len(v.xs) : StringKeyed(v.xs[i])
      [] OTHER        -> TRUE

Reads(p) ==
    /\ call'.tool = "read_json"
    /\ call' # call
    /\ "filepath" \in DOMAIN call'.args
    /\ call'.args.filepath = p

\* the path p does not exist: nothing is there, and p lies in no regular file
NoFileAt(p) ==
    /\ fs[p].kind = "absent"
    /\ Parent(p) # "." => fs[Parent(p)].kind # "file"

\* p is a file whose content is not valid JSON
InvalidJsonAt(p) == fs[p].kind = "file" /\ ~JsonLoads(fs[p].text).ok

\* p cannot be read as a file for another reason: p is a directory, or lies
\* below a regular file
OtherFailureAt(p) ==
    \/ fs[p].kind = "dir"
    \/ fs[p].kind = "absent" /\ Parent(p) # "." /\ fs[Parent(p)].kind = "file"

\* the error string read_json owes to the failure at p
ReadFailureReported(p, s) ==
    /\ NoFileAt(p) => Contains(s, "not found") /\ ~Contains(s, "Invalid JSON")
    /\ InvalidJsonAt(p) => Contains(s, "Invalid JSON") /\ ~Contains(s, "not found")
    /\ OtherFailureAt(p)
          => /\ StartsAt(s, 1, "Error")
             /\ ~Contains(s, "not found")
             /\ ~Contains(s, "Invalid JSON")

\* C14: read_json distinguishes its failures: on a path with no file it
\* returns an error string containing "not found", on a file whose content
\* is not valid JSON an error string containing "Invalid JSON", on any other
\* failure a third, different error string; in every case it returns a
\* string and leaves the file system unchanged.
C14_ReadFailuresDistinguished ==
    [][\A p \in Paths :
          Reads(p) => /\ ~ret'.raised
                      /\ ret'.value.t = "str"
                      /\ fs' = fs
                      /\ ReadFailureReported(p, ret'.value.s)]_vars

\* a file of invalid JSON has been read, beside a directory
C14_Witness ==
    /\ call = [tool |-> "read_json", args |-> [filepath |-> "a.json"]]
    /\ fs["a.json"] = RegularFile("{oops")
    /\ ret = Returned(PyStr("Error: Invalid JSON in file - " \o DecodeErrorText(2)))

(***************************************************************************)
(* Claims about two requests                                               *)
(***************************************************************************)
\* the request id as it stands, running or not
View(id) == IF other.id = id THEN other ELSE Suspended(id)

\* the id of the request whose thread is running
Running == 3 - other.id

\* the message at i answers a tool call of the closest AI message before it
AnswersOwnCall(ms, i) ==
    \E j \in 1..(i - 1) :
       /\ ms[j].role = "ai"
       /\ \A k \in (j + 1)..(i - 1) : ms[k].role = "tool"
       /\ \E c \in 1..Len(ms[j].tool_calls) : ms[j].tool_calls[c].id = ms[i].tool_call_id

\* the conversation state of v holds v's own messages only: what v's request
\* began with, then replies of the model to this conversation and Tool
\* messages for the calls of those replies, one reply for a round at most
OwnMessages(v) ==
    LET ms == v.messages
        n  == Len(InitialMessages(v.req))
    IN  /\ Len(ms) >= n
        /\ SubSeq(ms, 1, n) = InitialMessages(v.req)
        /\ \A i \in (n + 1)..Len(ms) :
              \/ ms[i].role = "ai" /\ ms[i] \in ModelReplies(SubSeq(ms, 1, i - 1))
              \/ ms[i].role = "tool" /\ AnswersOwnCall(ms, i)
        /\ Cardinality({i \in (n + 1)..Len(ms) : ms[i].role = "ai"}) <= v.rounds

\* a step changes the request id only if the thread of id is the one running
OwnStepsOnly(id) == (View(id))' # View(id) => (Running = id /\ Running' = id)

\* C15: when two chat requests run interleaved, they share no mutable state
\* other than the Tool Registry, which never changes after initialization:
\* each request's conversation state holds only its own messages, and the
\* steps of one request cannot change the conversation state or the reply of
\* the other.
C15_RequestsIsolated ==
    /\ [](\A id \in {1, 2} : OwnMessages(View(id)))
    /\ [][\A id \in {1, 2} : OwnStepsOnly(id)]_vars

\* two different requests, both in the middle of a round of tool calls, each
\* with a Tool message of its own already
C15_Witness ==
    /\ other # NoOther
    /\ other.req # req
    /\ other.pc = "tools"
    /\ pc = "tools"
    /\ other.messages[Len(other.messages)].role = "tool"
    /\ messages[Len(messages)].role = "tool"

(***************************************************************************)
(* Claims about the conversation state                                     *)
(***************************************************************************)
\* the message m is the past message h of the caller: a user's message is a
\* Human message, an assistant's an AI message, the content kept
IsPastMsg(m, h) ==
    IF h.role = "user"
    THEN m = HumanMessage(h.content)
    ELSE m.role = "ai" /\ m.content = PyStr(h.content) /\ m.tool_calls = <<>>

\* the conversation state begins with the fixed system message, then the
\* caller's history in the caller's order, then the new message
BeginsAsBuilt ==
    /\ Len(messages) >= Len(req.history) + 2
    /\ messages[1] = SystemMessage(SYSTEM_MESSAGE)
    /\ \A i \in 1..Len(req.history) : IsPastMsg(messages[i + 1], req.history[i])
    /\ messages[Len(req.history) + 2] = HumanMessage(req.message)

\* a step keeps every message of the conversation state in its place, hands
\* the whole state to the model when it invokes it, and leaves the request
OnlyAppends ==
    /\ Len(messages') >= Len(messages)
    /\ SubSeq(messages', 1, Len(messages)) = messages
    /\ Len(messages') <= Len(messages) + 1
    /\ (Len(messages') > Len(messages) /\ messages'[Len(messages')].role = "ai")
          => messages'[Len(messages')] \in ModelReplies(messages)
    /\ req' = req

\* C16: the conversation state is append-only within a run: it starts as
\* [System(fixed)] + history (in the caller's order) + [Human(input_text)],
\* that initial sequence stays an unchanged prefix, no message is removed,
\* reordered or altered, each model invocation receives the complete state
\* so far, and the caller's history is not modified.
C16_AppendOnly == [](pc # "idle" => BeginsAsBuilt) /\ [][pc # "idle" => OnlyAppends]_vars

\* a run with a history, in its third round, the Tool messages of two rounds
\* appended
C16_Witness ==
    /\ Len(req.history) = 2
    /\ rounds = 3
    /\ pc = "tools"
    /\ Cardinality({i \in 1..Len(messages) : messages[i].role = "tool"}) >= 2

(***************************************************************************)
(* Claims about the defaults of save_users                                 *)
(***************************************************************************)
\* save_users has been invoked and its body has run
SaveCalled == call # NoCall /\ call.tool = "save_users" /\ ~ret.raised

\* the list argument key is left out, or is empty
NotGiven(key) == key \notin DOMAIN call.args \/ call.args[key] = <<>>

\* the users in the file save_users has written
SavedUsers == UsersOf(JsonLoads(fs[call.args.filepath].text).v)

\* the default first and last names, paired
DefaultNames == << <<"John", "Smith">>, <<"Jane", "Jones">>, <<"Mike", "Brown">> >>

\* users are three: John Smith, Jane Jones and Mike Brown, with emails at
\* example.com and ages from 18 to 65
DefaultUsers(users) ==
    /\ Len(users) = 3
    /\ \A k \in 1..3 :
          /\ DictGet(users[k], "firstName") = PyStr(DefaultNames[k][1])
          /\ DictGet(users[k], "lastName") = PyStr(DefaultNames[k][2])
          /\ EndsWith(DictGet(users[k], "email").s, "@example.com")
          /\ DictGet(users[k], "age").n \in 18..65

\* users have the default in place of each list not given
DefaultsUsed(users) ==
    /\ NotGiven("first_names") => Len(users) = 3
    /\ \A k \in 1..Len(users) :
          /\ NotGiven("first_names")
                => DictGet(users[k], "firstName") = PyStr(DefaultNames[k][1])
          /\ NotGiven("last_names")
                => DictGet(users[k], "lastName") = PyStr(DefaultNames[((k - 1) % 3) + 1][2])
          /\ NotGiven("domains") => EndsWith(DictGet(users[k], "email").s, "@example.com")

\* users, the users saved, are those the claim tells of
SavedAsClaimed(users) ==
    /\ DefaultsUsed(users)
    /\ DOMAIN call.args = {"filepath"}
          => /\ ret.value = PyStr("Saved 3 users to '" \o call.args.filepath \o "'.")
             /\ DefaultUsers(users)

Exhausted == pc = "returned" /\ reply = Returned(PyStr("Error: exceeded tool-calling loop limit."))

\* the place of the last reply of the model
LastReply == CHOOSE i \in RunReplies : \A j \in RunReplies : j <= i

\* the calls of tcs that name a registered tool
RegisteredCalls(tcs) == SelectSeq(tcs, LAMBDA tc : tc.name \in RegisteredNames)

\* the Tool messages of the calls tcs are the messages after the place j, one
\* for each call and in the order of the calls, and the last of the calls to a
\* registered tool is the invocation made last
ExecutedAfter(j, tcs) ==
    /\ tcs # <<>>
    /\ Len(messages) = j + Len(tcs)
    /\ \A c \in 1..Len(tcs) :
          /\ messages[j + c].role = "tool"
          /\ messages[j + c].tool_call_id = tcs[c].id
    /\ RegisteredCalls(tcs) # <<>>
          => call = [tool |-> RegisteredCalls(tcs)[Len(RegisteredCalls(tcs))].name,
                     args |-> RegisteredCalls(tcs)[Len(RegisteredCalls(tcs))].args]

\* C18: tools are executed unconditionally in every round, the 8th included:
\* when run_chat returns the exhaustion string, the tool calls of the 8th
\* reply have already been executed (their side effects have happened) and
\* their Tool messages appended, though those results are never sent to the
\* model.
C18_LastRoundExecuted ==
    Exhausted
        => /\ Cardinality(RunReplies) = 8
           /\ rounds = 8
           /\ ExecutedAfter(LastReply, messages[LastReply].tool_calls)

\* the exhaustion string is returned after an 8th reply whose last call has
\* written a.json, a file no earlier round has made
C18_Witness ==
    /\ Exhausted
    /\ call = [tool |-> "write_json", args |-> [filepath |-> "a.json", data |-> PyDict(<<>>)]]
    /\ fs["a.json"] = RegularFile("{}")
    /\ Len(messages[LastReply].tool_calls) = 3
    /\ messages[Len(messages)].role = "tool"
    /\ Contains(messages[Len(messages)].content, "Successfully wrote JSON to 'a.json'")

(***************************************************************************)
(* Claims about _slugify                                                   *)
(***************************************************************************)
\* _slugify has been applied
SlugCalled == call # NoCall /\ call.tool = "_slugify"

\* the lowercase of a character tried
Lowered(c) == IF c = "Z" THEN "z" ELSE c

\* a character of a-z0-9
IsSlugLetter(c) == c \in {"a", "z", "7"}

RECURSIVE RunsOf(_, _, _)
\* the maximal runs of lowercased characters of a-z0-9 in s from i on, cur
\* being the run under way
RunsOf(s, i, cur) ==
    IF i > Len(s) THEN (IF cur = "" THEN <<>> ELSE <<cur>>)
    ELSE IF IsSlugLetter(Lowered(CharAt(s, i)))
    THEN RunsOf(s, i + 1, cur \o Lowered(CharAt(s, i)))
    ELSE (IF cur = "" THEN <<>> ELSE <<cur>>) \o RunsOf(s, i + 1, "")

\* s lowercased, every maximal run of other characters become one ".", and
\* the "." at the ends trimmed, "user" when nothing is left
SlugOf(s) == IF RunsOf(s, 1, "") = <<>> THEN "user" ELSE Join(RunsOf(s, 1, ""), ".")

\* out is not empty, is made of a-z, 0-9 and "." only, and has no "." at
\* either end and no two "." in a row
WellFormedSlug(out) ==
    /\ out # ""
    /\ \A i \in 1..Len(out) : CharAt(out, i) \in Chars(LowerAlpha \o Digits \o ".")
    /\ CharAt(out, 1) # "."
    /\ CharAt(out, Len(out)) # "."
    /\ ~Contains(out, "..")

====
